---- MODULE Spec2Model ----
(***************************************************************************)
(* Model of src/Agent.py: a LangGraph pipeline of four nodes               *)
(*   read_excel -> scrape -> summarize -> email                            *)
(* over one AgentState record {links, processed_articles, summary}.        *)
(*                                                                         *)
(* Strings of characters (page markdown, article text) are sequences of    *)
(* character codes; URLs and model responses are opaque strings.           *)
(* The f-string of summarize_node is modelled by its three interpolated    *)
(* fields (story number, url, text) per appended entry.                    *)
(***************************************************************************)
EXTENDS Integers, Sequences, FiniteSets, TLC

(* ------------------------------ bounds --------------------------------- *)
\* longest URL column of the spreadsheet that is explored
MaxLinks == 2
\* how far beyond the cap the longest explored page text reaches
Over == 1

(* ------------------------- program constants --------------------------- *)
\* result.markdown[:3000]
Cap == 3000

(* ---------------------------- input sets ------------------------------- *)
URLs == {"https://a.example/1", "https://a.example/2"}

Min(a, b) == IF a < b THEN a ELSE b

\* a page text of n characters (character codes 0..6, position dependent)
Page(n) == [k \in 1..n |-> (k * k + n) % 7]

\* extracted markdown of successful fetches: short, exactly at the cap, over it
Markdowns == {Page(2), Page(Cap), Page(Cap + Over)}

\* response.content of the model call
Responses == {"", "essay"}

\* all sequences over S of length at most n
RECURSIVE SeqsUpTo(_, _)
SeqsUpTo(S, n) ==
    IF n = 0 THEN {<< >>}
    ELSE LET shorter == SeqsUpTo(S, n - 1)
         IN  shorter \cup {Append(s, x) : s \in {t \in shorter : Len(t) = n - 1}, x \in S}

\* NewsLinks.xlsx as the loader sees it
Files ==
    {[exists |-> FALSE, hasURL |-> FALSE, rows |-> << >>]}
    \cup {[exists |-> TRUE, hasURL |-> FALSE, rows |-> << >>]}
    \cup {[exists |-> TRUE, hasURL |-> TRUE, rows |-> r] : r \in SeqsUpTo(URLs, MaxLinks)}

\* outcomes of one crawler.arun call: it raises, or returns a result whose
\* success flag is false (threshold unmet / failure status), or succeeds
FetchFailures == {"threshold", "status"}
ArunResults ==
    {[raises |-> TRUE, success |-> FALSE, why |-> "network", markdown |-> << >>]}
    \cup {[raises |-> FALSE, success |-> FALSE, why |-> w, markdown |-> << >>] : w \in FetchFailures}
    \cup {[raises |-> FALSE, success |-> TRUE, why |-> "ok", markdown |-> m] : m \in Markdowns}

NoResult == [raises |-> FALSE, success |-> FALSE, why |-> "none", markdown |-> << >>]

\* what the mail collaborator does with a session: the step that raises, or "ok"
SmtpOutcomes == {"connect_error", "login_error", "send_error", "ok"}

(* ------------------------------ state ---------------------------------- *)
VARIABLES
    file,            \* the spreadsheet on disk
    env,             \* process environment: is EMAIL_PASSWORD set
    node,            \* graph position of the run
    state,           \* AgentState
    pc,              \* position inside scrape_links_node
    articles,        \* local list of scrape_links_node
    idx,             \* 1-based position of the for loop in state["links"]
    result,          \* last value returned by crawler.arun
    crawler,         \* "closed" | "open": the AsyncWebCrawler session
    opens, closes,   \* number of __aenter__ / __aexit__ of the session
    inflight,        \* number of arun requests awaiting their response
    requests,        \* urls passed to crawler.arun, in call order
    outcomes,        \* per arun call: "raised" | "threshold" | "status" | "ok"
    formatted_data,  \* content handed to the model call
    model_calls,     \* number of chain.invoke calls
    response,        \* response.content of the model call
    smtp_sessions,   \* number of smtplib.SMTP_SSL(...) calls
    outbox,          \* bodies handed to server.sendmail that were accepted
    dispatch,        \* "not sent" | "sent" | "failed"
    console,         \* lines printed
    executed,        \* nodes started, in order
    completed,       \* nodes that returned, in order
    raised           \* "none" or the uncaught exception that ended the run

vars == <<file, env, node, state, pc, articles, idx, result, crawler, opens, closes,
          inflight, requests, outcomes, formatted_data, model_calls, response,
          smtp_sessions, outbox, dispatch, console, executed, completed, raised>>

fetchVars == <<pc, articles, idx, result, crawler, opens, closes, inflight, requests, outcomes>>
llmVars == <<formatted_data, model_calls, response>>
mailVars == <<smtp_sessions, outbox, dispatch, console>>

(* ------------------------------ graph ---------------------------------- *)
Nodes == <<"read_excel", "scrape", "summarize", "email">>

builder_edges_skip ==
    [n \in {"START", "read_excel", "scrape", "summarize", "email"} |->
        CASE n = "START" -> "read_excel"
          [] n = "read_excel" -> "summarize"
          [] n = "scrape" -> "summarize"
          [] n = "summarize" -> "email"
          [] n = "email" -> "END"]

\* builder.add_edge(...)
builder_edges ==
    [n \in {"START", "read_excel", "scrape", "summarize", "email"} |->
        CASE n = "START" -> "read_excel"
          [] n = "read_excel" -> "scrape"
          [] n = "scrape" -> "summarize"
          [] n = "summarize" -> "email"
          [] n = "email" -> "END"]

\* a node's returned dict is written over the keys it names
Update(st, upd) == [k \in DOMAIN st |-> IF k \in DOMAIN upd THEN upd[k] ELSE st[k]]

Init ==
    /\ file \in Files
    /\ env \in [EMAIL_PASSWORD : BOOLEAN]
    /\ node = "START"
    /\ state = [links |-> << >>, processed_articles |-> << >>, summary |-> ""]
    /\ pc = "idle"
    /\ articles = << >>
    /\ idx = 1
    /\ result = NoResult
    /\ crawler = "closed"
    /\ opens = 0
    /\ closes = 0
    /\ inflight = 0
    /\ requests = << >>
    /\ outcomes = << >>
    /\ formatted_data = << >>
    /\ model_calls = 0
    /\ response = ""
    /\ smtp_sessions = 0
    /\ outbox = << >>
    /\ dispatch = "not sent"
    /\ console = << >>
    /\ executed = << >>
    /\ completed = << >>
    /\ raised = "none"

\* asyncio.run(app.ainvoke({...})): the run enters the graph at START
ainvoke ==
    /\ raised = "none"
    /\ node = "START"
    /\ node' = builder_edges["START"]
    /\ UNCHANGED <<file, env, state, fetchVars, llmVars, mailVars, executed, completed, raised>>

(* --------------------------- Link Loader ------------------------------- *)
read_excel_lenient(f) ==
    IF ~f.exists THEN [raises |-> "FileNotFoundError", links |-> << >>]
    ELSE [raises |-> "none", links |-> f.rows]

\* pd.read_excel("NewsLinks.xlsx"); df['URL'].tolist()
read_excel(f) ==
    IF ~f.exists THEN [raises |-> "FileNotFoundError", links |-> << >>]
    ELSE IF ~f.hasURL THEN [raises |-> "KeyError", links |-> << >>]
    ELSE [raises |-> "none", links |-> f.rows]

read_excel_node ==
    /\ raised = "none"
    /\ node = "read_excel"
    /\ executed' = Append(executed, "read_excel")
    /\ LET r == read_excel(file)
       IN  IF r.raises # "none"
           THEN /\ raised' = r.raises
                /\ UNCHANGED <<node, state, completed>>
           ELSE /\ state' = Update(state, [links |-> r.links])
                /\ node' = builder_edges["read_excel"]
                /\ completed' = Append(completed, "read_excel")
                /\ UNCHANGED raised
    /\ UNCHANGED <<file, env, fetchVars, llmVars, mailVars>>

(* -------------------------- Content Fetcher ----------------------------- *)
Trim_uncapped(md) == md

\* result.markdown[:3000]
Trim(md) == SubSeq(md, 1, Min(Len(md), Cap))

append_article_always(arts, url, res) ==
    Append(arts, [url |-> url, text |-> Trim(res.markdown)])

append_article_front(arts, url, res) ==
    IF res.success
    THEN <<[url |-> url, text |-> Trim(res.markdown)]>> \o arts
    ELSE arts

\* if result.success: articles.append({"url": url, "text": result.markdown[:3000]})
append_article(arts, url, res) ==
    IF res.success
    THEN Append(arts, [url |-> url, text |-> Trim(res.markdown)])
    ELSE arts

aexit_leaky(c, n, exc) ==
    IF exc THEN [crawler |-> c, closes |-> n]
    ELSE [crawler |-> "closed", closes |-> n + 1]

\* leaving the block of `async with AsyncWebCrawler() as crawler`,
\* normally (exc = FALSE) or by an exception (exc = TRUE)
aexit(c, n, exc) == [crawler |-> "closed", closes |-> n + 1]

\* articles = []; config = ...; async with AsyncWebCrawler() as crawler:
scrape_links_node_enter ==
    /\ raised = "none"
    /\ node = "scrape"
    /\ pc = "idle"
    /\ executed' = Append(executed, "scrape")
    /\ articles' = << >>
    /\ crawler' = "open"
    /\ opens' = opens + 1
    /\ idx' = 1
    /\ pc' = "loop"
    /\ UNCHANGED <<file, env, node, state, result, closes, inflight, requests, outcomes,
                   llmVars, mailVars, completed, raised>>

\* for url in state["links"]: ... await crawler.arun(url=url, config=config)
\* (the coroutine suspends until the response arrives)
scrape_links_node_arun ==
    /\ raised = "none"
    /\ node = "scrape"
    /\ pc = "loop"
    /\ idx <= Len(state.links)
    /\ requests' = Append(requests, state.links[idx])
    /\ inflight' = inflight + 1
    /\ pc' = "await"
    /\ UNCHANGED <<file, env, node, state, articles, idx, result, crawler, opens, closes,
                   outcomes, llmVars, mailVars, executed, completed, raised>>

\* result = <the awaited value>; if result.success: articles.append(...)
\* an exception raised by arun leaves the async with block and the node
scrape_links_node_result(r) ==
    /\ raised = "none"
    /\ node = "scrape"
    /\ pc = "await"
    /\ inflight' = inflight - 1
    /\ outcomes' = Append(outcomes, IF r.raises THEN "raised" ELSE r.why)
    /\ IF r.raises
       THEN /\ LET x == aexit(crawler, closes, TRUE)
               IN  crawler' = x.crawler /\ closes' = x.closes
            /\ raised' = "fetch error"
            /\ pc' = "idle"
            /\ UNCHANGED <<result, articles, idx>>
       ELSE /\ result' = r
            /\ articles' = append_article(articles, state.links[idx], r)
            /\ idx' = idx + 1
            /\ pc' = "loop"
            /\ UNCHANGED <<crawler, closes, raised>>
    /\ UNCHANGED <<file, env, node, state, opens, requests, llmVars, mailVars,
                   executed, completed>>

\* the loop is exhausted: the async with block exits, return {"processed_articles": articles}
scrape_links_node_return ==
    /\ raised = "none"
    /\ node = "scrape"
    /\ pc = "loop"
    /\ idx > Len(state.links)
    /\ LET x == aexit(crawler, closes, FALSE)
       IN  crawler' = x.crawler /\ closes' = x.closes
    /\ state' = Update(state, [processed_articles |-> articles])
    /\ node' = builder_edges["scrape"]
    /\ completed' = Append(completed, "scrape")
    /\ pc' = "idle"
    /\ UNCHANGED <<file, env, articles, idx, result, opens, inflight, requests, outcomes,
                   llmVars, mailVars, executed, raised>>

(* ----------------------------- Summarizer ------------------------------ *)
story_zero_based(i, art) == [story |-> i, source_url |-> art.url, content |-> art.text]

\* f"--- STORY {i + 1} ---\nSOURCE_URL: {art['url']}\nCONTENT: {art['text']}\n\n"
\* for the enumerate index i (from 0)
story(i, art) == [story |-> i + 1, source_url |-> art.url, content |-> art.text]

\* formatted_data = ""; for i, art in enumerate(arts): formatted_data += f"..."
RECURSIVE format_from(_, _, _)
format_from(arts, i, acc) ==
    IF i >= Len(arts) THEN acc
    ELSE format_from(arts, i + 1, Append(acc, story(i, arts[i + 1])))

format(arts) == format_from(arts, 0, << >>)

\* chain.invoke(...) raises, or returns a response with some content
LlmResults ==
    {[raises |-> TRUE, content |-> ""]}
    \cup {[raises |-> FALSE, content |-> c] : c \in Responses}

summarize_return_stale(st, content) == [summary |-> st.summary]

\* return {"summary": response.content}
summarize_return(st, content) == [summary |-> content]

summarize_node_skip_empty(o) ==
    /\ raised = "none"
    /\ node = "summarize"
    /\ executed' = Append(executed, "summarize")
    /\ IF state.processed_articles = << >>
       THEN /\ node' = builder_edges["summarize"]
            /\ completed' = Append(completed, "summarize")
            /\ UNCHANGED <<formatted_data, model_calls, response, state, raised>>
       ELSE /\ formatted_data' = format(state.processed_articles)
            /\ model_calls' = model_calls + 1
            /\ IF o.raises
               THEN /\ raised' = "model error"
                    /\ UNCHANGED <<response, state, node, completed>>
               ELSE /\ response' = o.content
                    /\ state' = Update(state, summarize_return(state, o.content))
                    /\ node' = builder_edges["summarize"]
                    /\ completed' = Append(completed, "summarize")
                    /\ UNCHANGED raised
    /\ UNCHANGED <<file, env, fetchVars, mailVars>>

summarize_node(o) ==
    /\ raised = "none"
    /\ node = "summarize"
    /\ executed' = Append(executed, "summarize")
    /\ formatted_data' = format(state.processed_articles)
    /\ model_calls' = model_calls + 1
    /\ IF o.raises
       THEN /\ raised' = "model error"
            /\ UNCHANGED <<response, state, node, completed>>
       ELSE /\ response' = o.content
            /\ state' = Update(state, summarize_return(state, o.content))
            /\ node' = builder_edges["summarize"]
            /\ completed' = Append(completed, "summarize")
            /\ UNCHANGED raised
    /\ UNCHANGED <<file, env, fetchVars, mailVars>>

(* ----------------------------- Dispatcher ------------------------------ *)
\* the statement of the with block that raises, or "ok":
\* SMTP_SSL(...) raises; else login raises (always when EMAIL_PASSWORD is unset);
\* else sendmail raises; else nothing does
smtp_step(o, e) ==
    IF o = "connect_error" THEN "connect_error"
    ELSE IF ~e.EMAIL_PASSWORD THEN "login_error"
    ELSE o

try_except_narrow(step) ==
    IF step = "ok"
    THEN [dispatch |-> "sent", line |-> <<"Newsletter sent successfully!">>, propagates |-> FALSE]
    ELSE IF step = "login_error"
    THEN [dispatch |-> "failed", line |-> << >>, propagates |-> TRUE]
    ELSE [dispatch |-> "failed", line |-> <<"Failed to send: " \o step>>, propagates |-> FALSE]

\* try: ... print("Newsletter sent successfully!")
\* except Exception as e: print(f"Failed to send: {e}")
try_except(step) ==
    IF step = "ok"
    THEN [dispatch |-> "sent", line |-> <<"Newsletter sent successfully!">>, propagates |-> FALSE]
    ELSE [dispatch |-> "failed", line |-> <<"Failed to send: " \o step>>, propagates |-> FALSE]

send_email_node(o) ==
    /\ raised = "none"
    /\ node = "email"
    /\ executed' = Append(executed, "email")
    /\ smtp_sessions' = smtp_sessions + 1
    /\ LET step == smtp_step(o, env)
           t == try_except(step)
       IN  /\ outbox' = IF step = "ok" THEN Append(outbox, state.summary) ELSE outbox
           /\ dispatch' = t.dispatch
           /\ console' = console \o t.line
           /\ IF t.propagates
              THEN /\ raised' = "smtp error"
                   /\ UNCHANGED <<state, node, completed>>
              ELSE /\ state' = Update(state, state)
                   /\ node' = builder_edges["email"]
                   /\ completed' = Append(completed, "email")
                   /\ UNCHANGED raised
    /\ UNCHANGED <<file, env, fetchVars, llmVars>>

(* --------------------------- specification ----------------------------- *)
Next ==
    \/ ainvoke
    \/ read_excel_node
    \/ scrape_links_node_enter
    \/ scrape_links_node_arun
    \/ \E r \in ArunResults : scrape_links_node_result(r)
    \/ scrape_links_node_return
    \/ \E o \in LlmResults : summarize_node(o)
    \/ \E o \in SmtpOutcomes : send_email_node(o)

Spec == Init /\ [][Next]_vars

TypeOK ==
    /\ node \in {"START", "read_excel", "scrape", "summarize", "email", "END"}
    /\ pc \in {"idle", "loop", "await"}
    /\ crawler \in {"open", "closed"}
    /\ dispatch \in {"not sent", "sent", "failed"}
    /\ raised \in {"none", "FileNotFoundError", "KeyError", "fetch error", "model error", "smtp error"}
    /\ idx \in 1..(MaxLinks + 2)

(* ------------------------- auxiliary operators ------------------------- *)
Last(s) == s[Len(s)]

UrlsOf(arts) == [k \in 1..Len(arts) |-> arts[k].url]

\* is s obtained from t by deleting elements
RECURSIVE IsSubseq(_, _)
IsSubseq(s, t) ==
    IF s = << >> THEN TRUE
    ELSE IF t = << >> THEN FALSE
    ELSE IF Head(s) = Head(t) THEN IsSubseq(Tail(s), Tail(t))
    ELSE IsSubseq(s, Tail(t))

\* the elements of ls at the positions whose arun call succeeded
RECURSIVE Kept(_, _)
Kept(ls, outs) ==
    IF outs = << >> \/ ls = << >> THEN << >>
    ELSE IF Head(outs) = "ok" THEN <<Head(ls)>> \o Kept(Tail(ls), Tail(outs))
    ELSE Kept(Tail(ls), Tail(outs))

IsPrefix(s, t) == Len(s) <= Len(t) /\ \A k \in 1..Len(s) : s[k] = t[k]

Started(n) == \E k \in 1..Len(executed) : executed[k] = n
Completed(n) == \E k \in 1..Len(completed) : completed[k] = n

\* every arun call so far returned a result (none raised)
NoFetchRaised == \A k \in 1..Len(outcomes) : outcomes[k] # "raised"

\* each URL is requested at most once, in the order of links
NoRetry ==
    /\ IsPrefix(requests, state.links)
    /\ Len(outcomes) = Len(requests) - inflight

\* the records kept are exactly those of the calls that succeeded
OnlySuccessesRecorded == UrlsOf(articles) = Kept(state.links, outcomes)

(* ------------------------------- claims -------------------------------- *)

\* C1 (as stated): every kind of fetch failure of a URL, an exception raised
\* by the fetch call included, is silently skipped: no record for it, no
\* retry, the loop goes on to the next URL and the run is not aborted.
C1_EveryFailureSkipped ==
    /\ NoRetry
    /\ OnlySuccessesRecorded
    /\ raised # "fetch error"
    /\ (node = "scrape" /\ pc = "loop") => idx = Len(outcomes) + 1

\* C1 (amended): a fetch whose result reports failure (success flag false:
\* threshold unmet or failure status) is silently skipped: no record, no
\* retry, the loop continues with the next URL and only such failures never
\* abort the run; an exception raised by the fetch call is not caught and
\* aborts the run with the session released.
C1_ReportedFailureSkipped ==
    /\ NoRetry
    /\ OnlySuccessesRecorded
    /\ NoFetchRaised =>
          /\ raised # "fetch error"
          /\ (node = "scrape" /\ pc = "loop") => idx = Len(outcomes) + 1
          /\ (node # "scrape" /\ Started("scrape")) => Completed("scrape")
    /\ ~NoFetchRaised =>
          /\ raised = "fetch error"
          /\ Last(outcomes) = "raised"
          /\ ~Started("summarize")

C1_Witness ==
    /\ outcomes = <<"threshold", "ok">>
    /\ Len(articles) = 1
    /\ Started("summarize")

\* C2: any exception while opening the mail session, logging in (always when
\* EMAIL_PASSWORD is unset) or sending puts the dispatcher in "failed": it is
\* printed, not propagated, not retried, the record is returned unchanged and
\* the run ends normally.
C2_DispatchFailureContained ==
    /\ (Started("email") /\ ~env.EMAIL_PASSWORD) => dispatch = "failed"
    /\ (Started("email") /\ dispatch # "sent") => dispatch = "failed"
    /\ dispatch = "failed" =>
          /\ raised = "none"
          /\ node = "END"
          /\ Len(console) = 1
          /\ console[1] \in {"Failed to send: " \o s : s \in SmtpOutcomes \ {"ok"}}
          /\ smtp_sessions = 1
          /\ outbox = << >>
          /\ state = [links |-> file.rows, processed_articles |-> articles, summary |-> response]

C2_Witness ==
    /\ dispatch = "failed"
    /\ ~env.EMAIL_PASSWORD
    /\ state.summary = "essay"
    /\ Len(state.processed_articles) > 0

\* C3: after the Content Fetcher, processed_articles is no longer than links
\* and its urls are a subsequence of links (members of links, order kept,
\* duplicates of links kept as separate records).
C3_ArticlesSubsequenceOfLinks ==
    /\ Len(state.processed_articles) <= Len(state.links)
    /\ IsSubseq(UrlsOf(state.processed_articles), state.links)
    /\ (Completed("scrape") /\ \A k \in 1..Len(outcomes) : outcomes[k] = "ok")
          => UrlsOf(state.processed_articles) = state.links

C3_Witness ==
    /\ Completed("scrape")
    /\ Len(state.links) = 2
    /\ state.links[1] # state.links[2]
    /\ outcomes = <<"ok", "ok">>
    /\ Len(state.processed_articles) = 2

\* C4: the stages run in the order Loader, Fetcher, Summarizer, Dispatcher:
\* a stage starts only after the previous one completed, none runs twice, is
\* skipped or re-entered, at most one is active, and after the Dispatcher
\* the run has terminated after exactly one traversal.
C4_Order ==
    /\ IsPrefix(executed, Nodes)
    /\ IsPrefix(completed, Nodes)
    /\ Len(completed) <= Len(executed)
    /\ Len(executed) <= Len(completed) + 1
    /\ (node = "END") <=> (completed = Nodes)
    /\ (node \notin {"START", "END"} /\ raised = "none") => node = Nodes[Len(completed) + 1]

C4_LinearOnce == [](C4_Order) /\ [][node # "END"]_vars

C4_Witness ==
    /\ node = "END"
    /\ executed = Nodes
    /\ completed = Nodes

\* C5: a Loader fault (file or URL column missing) or a Summarizer fault
\* (the model call raises) aborts the run uncaught: no later stage runs, no
\* mail session is opened and nothing is sent; after a Loader fault no fetch
\* request was issued.
C5_FatalFaultsAbort ==
    /\ (Started("read_excel") /\ (~file.exists \/ ~file.hasURL)) =>
          /\ raised \in {"FileNotFoundError", "KeyError"}
          /\ executed = <<"read_excel">>
          /\ completed = << >>
          /\ opens = 0
          /\ requests = << >>
          /\ model_calls = 0
          /\ smtp_sessions = 0
          /\ outbox = << >>
    /\ (Started("summarize") /\ ~Completed("summarize")) =>
          /\ raised = "model error"
    /\ raised = "model error" =>
          /\ Last(executed) = "summarize"
          /\ state.summary = ""
          /\ smtp_sessions = 0
          /\ outbox = << >>
          /\ dispatch = "not sent"
          /\ console = << >>

C5_Witness ==
    /\ raised = "model error"
    /\ Len(state.processed_articles) = 2
    /\ smtp_sessions = 0

\* C6: when every fetch fails with a reported failure, processed_articles is
\* empty but the run goes on: the Summarizer gets an empty content block, the
\* model is called once and the Dispatcher attempts to send the summary.
AllFetchesReportedFailure ==
    /\ Completed("scrape")
    /\ Len(state.links) > 0
    /\ \A k \in 1..Len(outcomes) : outcomes[k] \in FetchFailures

C6_EmptyRunContinues ==
    AllFetchesReportedFailure =>
        /\ Len(outcomes) = Len(state.links)
        /\ state.processed_articles = << >>
        /\ raised \in {"none", "model error"}
        /\ node \in {"summarize", "email", "END"}
        /\ (raised = "none" /\ node # "END") => ENABLED Next
        /\ Started("summarize") => (formatted_data = << >> /\ model_calls = 1)
        /\ Completed("summarize") => state.summary = response
        /\ Started("email") => (smtp_sessions = 1 /\ (dispatch = "sent" => outbox = <<response>>))
        /\ node = "END" => (model_calls = 1 /\ smtp_sessions = 1)

C6_Witness ==
    /\ AllFetchesReportedFailure
    /\ node = "END"
    /\ model_calls = 1
    /\ dispatch = "sent"

\* C7: the formatted block of n Article Records has exactly n story entries;
\* the k-th carries the marker STORY k, then the url, then the text of the
\* k-th record; numbering starts at 1 without gaps or repeats (n = 0 included).
C7_StoryBlock ==
    Started("summarize") =>
        /\ Len(formatted_data) = Len(state.processed_articles)
        /\ \A k \in 1..Len(formatted_data) :
              /\ formatted_data[k].story = k
              /\ formatted_data[k].source_url = state.processed_articles[k].url
              /\ formatted_data[k].content = state.processed_articles[k].text

C7_Witness ==
    /\ Started("summarize")
    /\ Len(formatted_data) = 2
    /\ formatted_data[2].story = 2
    /\ formatted_data[1].content # formatted_data[2].content

\* C8: the stored text is the prefix of the extracted text of length
\* min(len, 3000): longer text is stored with exactly 3000 characters, text
\* within the cap unmodified, truncating again changes nothing; so every
\* record's text is at most 3000 characters long.
C8_TruncationLaw ==
    /\ \A k \in 1..Len(articles) :
          /\ Len(articles[k].text) <= 3000
          /\ Trim(articles[k].text) = articles[k].text
    /\ \A k \in 1..Len(state.processed_articles) :
          Len(state.processed_articles[k].text) <= 3000
    /\ result.success =>
          /\ articles # << >>
          /\ LET t == Last(articles).text
                 md == result.markdown
             IN  /\ Len(t) = Min(Len(md), 3000)
                 /\ IsPrefix(t, md)
                 /\ Len(md) > 3000 => Len(t) = 3000
                 /\ Len(md) <= 3000 => t = md

C8_Witness ==
    /\ result.success
    /\ Len(result.markdown) > 3000
    /\ Len(Last(articles).text) = 3000
    /\ Completed("scrape")

\* C9: one fetching session per run: opened once before the first request,
\* every request issued while it is open with at most one in flight, closed
\* once after the last URL, and released on every exit path (a fetch raising
\* mid-loop included): no state after the Fetcher stage has it open.
C9_SingleSession ==
    /\ opens <= 1
    /\ closes <= opens
    /\ (crawler = "open") <=> (opens = 1 /\ closes = 0)
    /\ (crawler = "open") <=> (node = "scrape" /\ pc \in {"loop", "await"} /\ raised = "none")
    /\ inflight \in {0, 1}
    /\ (inflight = 1) <=> (pc = "await")
    /\ requests # << >> => opens = 1
    /\ (Completed("scrape") \/ raised = "fetch error") =>
          /\ opens = 1
          /\ closes = 1
          /\ crawler = "closed"
          /\ inflight = 0
    /\ Completed("scrape") => Len(requests) = Len(state.links)

C9_Witness ==
    /\ raised = "fetch error"
    /\ outcomes = <<"ok", "raised">>
    /\ crawler = "closed"
    /\ closes = 1

\* C10: summary is empty until the Summarizer completes, is assigned once, to
\* the model's response text, after the Fetcher gathered the articles and
\* before the Dispatcher starts; later stages leave it alone and the
\* Dispatcher sends exactly that value as the message body.
C10_Summary ==
    /\ ~Completed("summarize") => state.summary = ""
    /\ Completed("summarize") =>
          /\ state.summary = response
          /\ model_calls = 1
          /\ Completed("scrape")
          /\ state.processed_articles = articles
    /\ Len(outbox) <= 1
    /\ \A k \in 1..Len(outbox) : outbox[k] = state.summary /\ outbox[k] = response

C10_SummarySetOnce ==
    /\ [](C10_Summary)
    /\ [][state'.summary # state.summary =>
             /\ node = "summarize"
             /\ state.summary = ""
             /\ Completed("scrape")
             /\ ~Started("email")
             /\ state'.summary = response']_vars
    /\ [][(response' # response \/ model_calls' # model_calls) => node = "summarize"]_vars

C10_Witness ==
    /\ dispatch = "sent"
    /\ outbox = <<"essay">>
    /\ state.summary = "essay"
    /\ node = "END"

====
